---- MODULE Spec2Model ----
(***************************************************************************)
(* Property values of pkg/resource (properties.go) and their conversion to *)
(* and from the JSON-like wire structure (rpc.go).                         *)
(*                                                                         *)
(* A PropertyValue is a record tagged by the dynamic type of its V field.  *)
(* A PropertyMap is a function from a finite set of keys to values.  A     *)
(* wire value is a record tagged by the structpb oneof case it holds.  A   *)
(* call that ends in contract.Failf / contract.Assertf is a result whose   *)
(* fault field names the failed contract; nothing else of such a result is *)
(* meaningful.                                                             *)
(***************************************************************************)
EXTENDS Integers, Sequences, FiniteSets, TLC

VARIABLES props, ctx, opts, value, wireIn, key, req, pc, out

vars == <<props, ctx, opts, value, wireIn, key, req, pc, out>>

----------------------------------------------------------------------------
(* Bounds of the explored inputs.                                          *)

\* Largest number of PropertyValue nodes below a marshaled map.
MaxNodes == 4

----------------------------------------------------------------------------
(* PropertyValue constructors and predicates (properties.go).              *)

NewNullProperty == [kind |-> "null"]
NewBoolProperty(v) == [kind |-> "bool", b |-> v]
NewNumberProperty(v) == [kind |-> "number", n |-> v]
NewStringProperty(v) == [kind |-> "string", s |-> v]
NewArrayProperty(v) == [kind |-> "array", elems |-> v]
NewObjectProperty(v) == [kind |-> "object", obj |-> v]
NewResourceProperty(v) == [kind |-> "resource", urn |-> v]
NewComputedProperty(v) == [kind |-> "computed", cv |-> v]
NewOutputProperty(v) == [kind |-> "output", ov |-> v]

MakeComputed(v) == NewComputedProperty(v)
MakeOutput(v) == NewOutputProperty(v)

IsNull(v) == v.kind = "null"
IsBool(v) == v.kind = "bool"
IsNumber(v) == v.kind = "number"
IsString(v) == v.kind = "string"
IsArray(v) == v.kind = "array"
IsObject(v) == v.kind = "object"
IsResource(v) == v.kind = "resource"
IsComputed(v) == v.kind = "computed"
IsOutput(v) == v.kind = "output"

BoolValue(v) == v.b
NumberValue(v) == v.n
StringValue(v) == v.s
ArrayValue(v) == v.elems
ObjectValue(v) == v.obj
ResourceValue(v) == v.urn
ComputedValue(v) == v.cv
OutputValue(v) == v.ov

\* Computed.Eventual / Output.Eventual: the wrapped placeholder itself.
Eventual(w) == w

\* The PropertyMap with no entries (make(PropertyMap)).
EmptyMap == [k \in {} |-> NewNullProperty]

----------------------------------------------------------------------------
(* Keys, URNs and IDs of the explored inputs.                              *)

\* Property keys, listed in lexicographic order.
KeyOrder == <<"a", "b">>
Keys == {KeyOrder[i] : i \in 1..Len(KeyOrder)}

\* StablePropertyKeys: the keys of a map in lexicographic order.
RECURSIVE SortedFrom(_, _)
SortedFrom(m, i) ==
    IF i > Len(KeyOrder) THEN <<>>
    ELSE (IF KeyOrder[i] \in DOMAIN m THEN <<KeyOrder[i]>> ELSE <<>>)
         \o SortedFrom(m, i + 1)
StablePropertyKeys(m) == SortedFrom(m, 1)

URNs == {"urn:1", "urn:2"}

----------------------------------------------------------------------------
(* Bounded sets of PropertyValues: every value with exactly n nodes, built *)
(* from the leaves L, with Computed/Output wrappers when W.                *)

RECURSIVE ValuesOfSize(_, _, _), SeqsOfSize(_, _, _), MapsOfSize(_, _, _, _)
ValuesOfSize(L, W, n) ==
    IF n = 1
    THEN L \cup {NewArrayProperty(<<>>), NewObjectProperty(EmptyMap)}
    ELSE (IF W
          THEN {MakeComputed(v) : v \in ValuesOfSize(L, W, n - 1)}
               \cup {MakeOutput(v) : v \in ValuesOfSize(L, W, n - 1)}
          ELSE {})
         \cup {NewArrayProperty(s) : s \in SeqsOfSize(L, W, n - 1)}
         \cup {NewObjectProperty(m) : m \in MapsOfSize(L, W, 1, n - 1)}

\* Non-empty sequences of values with t nodes in total.
SeqsOfSize(L, W, t) ==
    UNION {{<<v>> \o r : v \in ValuesOfSize(L, W, i),
                         r \in (IF i = t THEN {<<>>} ELSE SeqsOfSize(L, W, t - i))}
           : i \in 1..t}

\* Non-empty maps over the keys KeyOrder[j..] with t nodes in total.
MapsOfSize(L, W, j, t) ==
    IF j > Len(KeyOrder) THEN {}
    ELSE MapsOfSize(L, W, j + 1, t)
         \cup UNION {{(KeyOrder[j] :> v) @@ r :
                          v \in ValuesOfSize(L, W, i),
                          r \in (IF i = t THEN {EmptyMap}
                                 ELSE MapsOfSize(L, W, j + 1, t - i))}
                     : i \in 1..t}

\* Maps with at most n nodes in total, the empty map included.
MapsUpTo(L, W, n) == {EmptyMap} \cup UNION {MapsOfSize(L, W, 1, t) : t \in 1..n}

----------------------------------------------------------------------------
(* The wire structure (structpb.Value, structpb.Struct).                   *)

WNull == [wk |-> "NullValue"]
WBool(x) == [wk |-> "BoolValue", wb |-> x]
WNumber(x) == [wk |-> "NumberValue", wn |-> x]
WString(x) == [wk |-> "StringValue", ws |-> x]
WList(x) == [wk |-> "ListValue", values |-> x]
WStruct(x) == [wk |-> "StructValue", fields |-> x]
\* A nil *structpb.Value, and a non-nil one whose Kind is none of the six.
WNil == [wk |-> "nil"]
WUnset == [wk |-> "unset"]

----------------------------------------------------------------------------
(* Context and MarshalOptions.                                             *)

\* A nil *Context.
NilContext == [nil |-> TRUE]
\* A Context: URNRes maps a URN to its resource, represented by the ID that
\* resource reports; URNOldIDs maps a URN to the ID of the prior deployment.
NewContext(res, olds) == [nil |-> FALSE, URNRes |-> res, URNOldIDs |-> olds]

MarshalOptions(permitOlds, rawURNs) == [PermitOlds |-> permitOlds, RawURNs |-> rawURNs]

----------------------------------------------------------------------------
(* Marshaling (rpc.go).                                                    *)

\* A call ended by a failed contract.
Fault(f) == [fault |-> f, wire |-> WNil, known |-> FALSE]
Value(w, k) == [fault |-> "none", wire |-> w, known |-> k]

MutResolveIDOlds(c, m, o) ==
    IF m \in DOMAIN c.URNRes THEN [found |-> TRUE, id |-> c.URNRes[m]]
    ELSE IF m \in DOMAIN c.URNOldIDs THEN [found |-> TRUE, id |-> c.URNOldIDs[m]]
    ELSE [found |-> FALSE, id |-> ""]

MutResolveID(c, m, o) ==
    IF o.PermitOlds /\ m \in DOMAIN c.URNOldIDs
    THEN [found |-> TRUE, id |-> c.URNOldIDs[m]]
    ELSE IF m \in DOMAIN c.URNRes THEN [found |-> TRUE, id |-> c.URNRes[m]]
    ELSE [found |-> FALSE, id |-> ""]

\* The ID a resource value resolves to (lines 123-129): found is FALSE when
\* neither map serves the URN.
ResolveID(c, m, o) ==
    IF m \in DOMAIN c.URNRes THEN [found |-> TRUE, id |-> c.URNRes[m]]
    ELSE IF o.PermitOlds /\ m \in DOMAIN c.URNOldIDs
    THEN [found |-> TRUE, id |-> c.URNOldIDs[m]]
    ELSE [found |-> FALSE, id |-> ""]

MutMarshalResource(c, m, o) ==
    IF o.RawURNs THEN Value(WString(m), TRUE)
    ELSE IF c.nil THEN Fault("nil context")
    ELSE LET r == ResolveID(c, m, o)
         IN  IF ~r.found THEN Fault("urn missing")
             ELSE Value(WString(r.id), TRUE)

\* The resource branch of MarshalPropertyValue.
MarshalResource(c, m, o) ==
    IF o.RawURNs THEN Value(WString(m), TRUE)
    ELSE IF c.nil THEN Fault("nil context")
    ELSE LET r == ResolveID(c, m, o)
         IN  IF ~r.found THEN Fault("urn missing")
             ELSE IF r.id = "" THEN Fault("empty id")
             ELSE Value(WString(r.id), TRUE)

\* The first fault among the results rs[1..n], "none" when none faulted.
RECURSIVE FirstFault(_, _)
FirstFault(rs, i) ==
    IF i > Len(rs) THEN "none"
    ELSE IF rs[i].fault # "none" THEN rs[i].fault
    ELSE FirstFault(rs, i + 1)

\* Lines 140-141 and 143-144: the marshaled eventual value, reported unknown.
ComputedResult(r) == Value(r.wire, FALSE)

MutOutputResult(r) == Value(r.wire, r.known)
OutputResult(r) == Value(r.wire, FALSE)

MutObjectKnown(unk) == TRUE
\* Line 114: an object is known when the nested call returned a nil map.
ObjectKnown(unk) == unk = {}

MutMarshaledKeys(m) == DOMAIN m
\* The keys the loop of MarshalPropertiesWithUnknowns marshals (line 46).
MarshaledKeys(m) == {k \in DOMAIN m : ~IsOutput(m[k])}

RECURSIVE MarshalPropertyValue(_, _, _), MarshalPropertiesWithUnknowns(_, _, _)
MarshalPropertyValue(c, v, o) ==
    IF IsNull(v) THEN Value(WNull, TRUE)
    ELSE IF IsBool(v) THEN Value(WBool(BoolValue(v)), TRUE)
    ELSE IF IsNumber(v) THEN Value(WNumber(NumberValue(v)), TRUE)
    ELSE IF IsString(v) THEN Value(WString(StringValue(v)), TRUE)
    ELSE IF IsArray(v) THEN
        LET es == ArrayValue(v)
            rs == [i \in 1..Len(es) |-> MarshalPropertyValue(c, es[i], o)]
        IN  IF FirstFault(rs, 1) # "none" THEN Fault(FirstFault(rs, 1))
            ELSE Value(WList([i \in 1..Len(es) |-> rs[i].wire]),
                       \A i \in 1..Len(es) : rs[i].known)
    ELSE IF IsObject(v) THEN
        LET r == MarshalPropertiesWithUnknowns(c, ObjectValue(v), o)
        IN  IF r.fault # "none" THEN Fault(r.fault)
            ELSE Value(WStruct(r.fields), ObjectKnown(r.unk))
    ELSE IF IsResource(v) THEN MarshalResource(c, ResourceValue(v), o)
    ELSE IF IsComputed(v) THEN
        LET r == MarshalPropertyValue(c, Eventual(ComputedValue(v)), o)
        IN  IF r.fault # "none" THEN r ELSE ComputedResult(r)
    ELSE IF IsOutput(v) THEN
        LET r == MarshalPropertyValue(c, Eventual(OutputValue(v)), o)
        IN  IF r.fault # "none" THEN r ELSE OutputResult(r)
    ELSE Fault("unrecognized property value")

\* fields: the Fields of the returned struct; unk: the keys of the returned
\* unknown map, which is nil exactly when no key was added.
MarshalPropertiesWithUnknowns(c, m, o) ==
    LET ks == StablePropertyKeys(m)
        rk == [k \in MarshaledKeys(m) |-> MarshalPropertyValue(c, m[k], o)]
        rs == [i \in 1..Len(ks) |->
                 IF ks[i] \in MarshaledKeys(m) THEN rk[ks[i]] ELSE Value(WNil, TRUE)]
    IN  IF FirstFault(rs, 1) # "none"
        THEN [fault |-> FirstFault(rs, 1), fields |-> EmptyMap, unk |-> {}]
        ELSE [fault |-> "none",
              fields |-> [k \in MarshaledKeys(m) |-> rk[k].wire],
              unk |-> {k \in MarshaledKeys(m) : ~rk[k].known}]

MutMarshalProperties(c, m, o) == MarshalPropertiesWithUnknowns(c, m, o)
\* MarshalProperties: the struct, once the unknown map is asserted nil.
MarshalProperties(c, m, o) ==
    LET r == MarshalPropertiesWithUnknowns(c, m, o)
    IN  IF r.fault # "none" THEN r
        ELSE IF r.unk # {}
        THEN [fault |-> "unknown properties", fields |-> EmptyMap, unk |-> {}]
        ELSE r

----------------------------------------------------------------------------
(* Resource discovery (properties.go).  A map[URN]bool is a function from  *)
(* its keys to BOOLEAN.                                                    *)

EmptyURNs == [u \in {} |-> TRUE]

MutMergeURNs(into, from) == from
\* for m, v := range from { into[m] = v }
MergeURNs(into, from) ==
    [u \in DOMAIN into \cup DOMAIN from |-> IF u \in DOMAIN from THEN from[u] ELSE into[u]]

\* MergeURNs of subs[i], subs[i+1], ... into acc, in this order.
RECURSIVE MergeAll(_, _, _)
MergeAll(acc, subs, i) ==
    IF i > Len(subs) THEN acc ELSE MergeAll(MergeURNs(acc, subs[i]), subs, i + 1)

RECURSIVE PropertyValueAllResources(_), PropertyMapAllResources(_)
PropertyValueAllResources(v) ==
    IF IsResource(v) THEN [u \in {ResourceValue(v)} |-> TRUE]
    ELSE IF IsArray(v) THEN
        LET es == ArrayValue(v)
        IN  MergeAll(EmptyURNs, [i \in 1..Len(es) |-> PropertyValueAllResources(es[i])], 1)
    ELSE IF IsObject(v) THEN MergeURNs(EmptyURNs, PropertyMapAllResources(ObjectValue(v)))
    ELSE EmptyURNs

PropertyMapAllResources(m) ==
    LET ks == StablePropertyKeys(m)
    IN  MergeAll(EmptyURNs, [i \in 1..Len(ks) |-> PropertyValueAllResources(m[ks[i]])], 1)

----------------------------------------------------------------------------
(* Typed accessors (properties.go).  A returned pointer is NilPtr or       *)
(* PtrTo(x); an error is NoError, ReqError(k) or the result of Errorf.     *)

NilPtr == [ptr |-> "nil"]
PtrTo(x) == [ptr |-> "to", at |-> x]

NoError == [err |-> "nil"]
ReqError(k) == [err |-> "ReqError", K |-> k]
Errorf(k, what) == [err |-> "errors.Errorf", K |-> k, msg |-> what]
MutElementErrorf(k, i, what) ==
    [err |-> "errors.Errorf", K |-> k, msg |-> what, index |-> i + 1]
\* Lines 158-159 and 181-182: the error naming the key and the index i.
ElementErrorf(k, i, what) == [err |-> "errors.Errorf", K |-> k, msg |-> what, index |-> i]

IsReqError(e) == e.err = "ReqError"

Result(v, e) == [fault |-> "none", val |-> v, err |-> e]

BoolOrErr(m, k, r) ==
    IF k \in DOMAIN m /\ ~IsNull(m[k])
    THEN IF ~IsBool(m[k]) THEN Result(NilPtr, Errorf(k, "is not a bool"))
         ELSE Result(PtrTo(BoolValue(m[k])), NoError)
    ELSE IF r THEN Result(NilPtr, ReqError(k))
    ELSE Result(NilPtr, NoError)

NumberOrErr(m, k, r) ==
    IF k \in DOMAIN m /\ ~IsNull(m[k])
    THEN IF ~IsNumber(m[k]) THEN Result(NilPtr, Errorf(k, "is not a number"))
         ELSE Result(PtrTo(NumberValue(m[k])), NoError)
    ELSE IF r THEN Result(NilPtr, ReqError(k))
    ELSE Result(NilPtr, NoError)

\* StringOrErr without the test for Null.
MutStringOrErr(m, k, r) ==
    IF k \in DOMAIN m
    THEN IF ~IsString(m[k]) THEN Result(NilPtr, Errorf(k, "is not a string"))
         ELSE Result(PtrTo(StringValue(m[k])), NoError)
    ELSE IF r THEN Result(NilPtr, ReqError(k))
    ELSE Result(NilPtr, NoError)

StringOrErr(m, k, r) ==
    IF k \in DOMAIN m /\ ~IsNull(m[k])
    THEN IF ~IsString(m[k]) THEN Result(NilPtr, Errorf(k, "is not a string"))
         ELSE Result(PtrTo(StringValue(m[k])), NoError)
    ELSE IF r THEN Result(NilPtr, ReqError(k))
    ELSE Result(NilPtr, NoError)

ArrayOrErr(m, k, r) ==
    IF k \in DOMAIN m /\ ~IsNull(m[k])
    THEN IF ~IsArray(m[k]) THEN Result(NilPtr, Errorf(k, "is not an array"))
         ELSE Result(PtrTo(ArrayValue(m[k])), NoError)
    ELSE IF r THEN Result(NilPtr, ReqError(k))
    ELSE Result(NilPtr, NoError)

\* The loop of ObjectArrayOrErr from element a[i] on, objs being acc: the
\* objects, or the error naming the 0-based index of the first non-object.
RECURSIVE ObjectElements(_, _, _, _)
ObjectElements(k, a, i, acc) ==
    IF i > Len(a) THEN Result(PtrTo(acc), NoError)
    ELSE IF IsObject(a[i]) THEN ObjectElements(k, a, i + 1, Append(acc, ObjectValue(a[i])))
    ELSE Result(NilPtr, ElementErrorf(k, i - 1, "is not an object"))

ObjectArrayOrErr(m, k, r) ==
    IF k \in DOMAIN m /\ ~IsNull(m[k])
    THEN IF ~IsArray(m[k]) THEN Result(NilPtr, Errorf(k, "is not an array"))
         ELSE ObjectElements(k, ArrayValue(m[k]), 1, <<>>)
    ELSE IF r THEN Result(NilPtr, ReqError(k))
    ELSE Result(NilPtr, NoError)

\* The loop of StringArrayOrErr, likewise.
RECURSIVE StringElements(_, _, _, _)
StringElements(k, a, i, acc) ==
    IF i > Len(a) THEN Result(PtrTo(acc), NoError)
    ELSE IF IsString(a[i]) THEN StringElements(k, a, i + 1, Append(acc, StringValue(a[i])))
    ELSE Result(NilPtr, ElementErrorf(k, i - 1, "is not a string"))

StringArrayOrErr(m, k, r) ==
    IF k \in DOMAIN m /\ ~IsNull(m[k])
    THEN IF ~IsArray(m[k]) THEN Result(NilPtr, Errorf(k, "is not an array"))
         ELSE StringElements(k, ArrayValue(m[k]), 1, <<>>)
    ELSE IF r THEN Result(NilPtr, ReqError(k))
    ELSE Result(NilPtr, NoError)

ObjectOrErr(m, k, r) ==
    IF k \in DOMAIN m /\ ~IsNull(m[k])
    THEN IF ~IsObject(m[k]) THEN Result(NilPtr, Errorf(k, "is not an object"))
         ELSE Result(PtrTo(ObjectValue(m[k])), NoError)
    ELSE IF r THEN Result(NilPtr, ReqError(k))
    ELSE Result(NilPtr, NoError)

\* The three accessors below word their type error like ObjectOrErr.
ResourceOrErr(m, k, r) ==
    IF k \in DOMAIN m /\ ~IsNull(m[k])
    THEN IF ~IsResource(m[k]) THEN Result(NilPtr, Errorf(k, "is not an object"))
         ELSE Result(PtrTo(ResourceValue(m[k])), NoError)
    ELSE IF r THEN Result(NilPtr, ReqError(k))
    ELSE Result(NilPtr, NoError)

ComputedOrErr(m, k, r) ==
    IF k \in DOMAIN m /\ ~IsNull(m[k])
    THEN IF ~IsComputed(m[k]) THEN Result(NilPtr, Errorf(k, "is not an object"))
         ELSE Result(PtrTo(ComputedValue(m[k])), NoError)
    ELSE IF r THEN Result(NilPtr, ReqError(k))
    ELSE Result(NilPtr, NoError)

OutputOrErr(m, k, r) ==
    IF k \in DOMAIN m /\ ~IsNull(m[k])
    THEN IF ~IsOutput(m[k]) THEN Result(NilPtr, Errorf(k, "is not an object"))
         ELSE Result(PtrTo(OutputValue(m[k])), NoError)
    ELSE IF r THEN Result(NilPtr, ReqError(k))
    ELSE Result(NilPtr, NoError)

\* The accessor families, by the <Kind> of their names.
Accessors ==
    {"Bool", "Number", "String", "Array", "ObjectArray", "StringArray", "Object",
     "Resource", "Computed", "Output"}

OrErr(a, m, k, r) ==
    CASE a = "Bool" -> BoolOrErr(m, k, r)
      [] a = "Number" -> NumberOrErr(m, k, r)
      [] a = "String" -> StringOrErr(m, k, r)
      [] a = "Array" -> ArrayOrErr(m, k, r)
      [] a = "ObjectArray" -> ObjectArrayOrErr(m, k, r)
      [] a = "StringArray" -> StringArrayOrErr(m, k, r)
      [] a = "Object" -> ObjectOrErr(m, k, r)
      [] a = "Resource" -> ResourceOrErr(m, k, r)
      [] a = "Computed" -> ComputedOrErr(m, k, r)
      [] a = "Output" -> OutputOrErr(m, k, r)

\* What Req<Kind>OrErr returns beside an error.  Nil slices and maps are
\* the empty sequence and map; Computed{} and Output{} wrap a nil V.
ZeroValue(a) ==
    CASE a = "Bool" -> FALSE
      [] a = "Number" -> 0
      [] a = "String" -> ""
      [] a \in {"Array", "ObjectArray", "StringArray"} -> <<>>
      [] a = "Object" -> EmptyMap
      [] a = "Resource" -> ""
      [] a \in {"Computed", "Output"} -> NewNullProperty

\* Req<Kind>OrErr: the zero value with the error, else the pointer's target;
\* dereferencing a nil pointer is a runtime panic.
ReqOrErr(a, m, k) ==
    LET r == OrErr(a, m, k, TRUE)
    IN  IF r.err # NoError THEN Result(ZeroValue(a), r.err)
        ELSE IF r.val = NilPtr THEN [fault |-> "nil pointer dereference"]
        ELSE Result(r.val.at, NoError)

\* Opt<Kind>OrErr.
OptOrErr(a, m, k) == OrErr(a, m, k, FALSE)

----------------------------------------------------------------------------
(* Marshaling a property map: the inputs are drawn by Init, each action    *)
(* is one call on them.                                                    *)

MarshalLeaves ==
    {NewStringProperty("s")} \cup {NewResourceProperty(u) : u \in URNs}

\* urn:1 is a live resource with an ID; urn:2 is unknown to the context.
MarshalContext == NewContext([u \in {"urn:1"} |-> "id-1"], EmptyMap)

Init ==
    /\ props \in MapsUpTo(MarshalLeaves, TRUE, MaxNodes)
    /\ ctx = MarshalContext
    /\ opts \in {MarshalOptions(FALSE, r) : r \in BOOLEAN}
    /\ value = NewNullProperty
    /\ wireIn = WNil
    /\ key = "a"
    /\ req = FALSE
    /\ pc = "input"
    /\ out = [fault |-> "none"]

CallMarshalPropertiesWithUnknowns ==
    /\ pc = "input"
    /\ out' = MarshalPropertiesWithUnknowns(ctx, props, opts)
    /\ pc' = "MarshalPropertiesWithUnknowns"
    /\ UNCHANGED <<props, ctx, opts, value, wireIn, key, req>>

CallMarshalProperties ==
    /\ pc = "input"
    /\ out' = MarshalProperties(ctx, props, opts)
    /\ pc' = "MarshalProperties"
    /\ UNCHANGED <<props, ctx, opts, value, wireIn, key, req>>

CallAllResources ==
    /\ pc = "input"
    /\ out' = [fault |-> "none", urns |-> PropertyMapAllResources(props)]
    /\ pc' = "PropertyMap.AllResources"
    /\ UNCHANGED <<props, ctx, opts, value, wireIn, key, req>>

\* PropertyValue.AllResources on the value of one entry.
CallValueAllResources ==
    /\ pc = "input"
    /\ \E k \in DOMAIN props :
         /\ key' = k
         /\ out' = [fault |-> "none", urns |-> PropertyValueAllResources(props[k])]
    /\ pc' = "PropertyValue.AllResources"
    /\ UNCHANGED <<props, ctx, opts, value, wireIn, req>>

Next ==
    \/ CallMarshalPropertiesWithUnknowns
    \/ CallMarshalProperties
    \/ CallAllResources
    \/ CallValueAllResources

Spec == Init /\ [][Next]_vars

----------------------------------------------------------------------------
(* Unmarshaling (rpc.go).                                                  *)

\* A *structpb.Struct: nil, or one with the given Fields.
NilStruct == [nil |-> TRUE]
Struct(fields) == [nil |-> FALSE, Fields |-> fields]

Unmarshaled(v) == [fault |-> "none", val |-> v]
UnmarshalFault(f) == [fault |-> f, val |-> NewNullProperty]

MutUnrecognizedKind == Unmarshaled(NewNullProperty)
\* Line 197: the default case of the switch on v.Kind.
UnrecognizedKind == UnmarshalFault("unrecognized structpb value kind")

MutGetValues(w) == IF w.values = <<>> THEN <<>> ELSE Tail(w.values)
\* Lines 188-189: lst.GetValues().
GetValues(w) == w.values

RECURSIVE UnmarshalPropertyValue(_), UnmarshalProperties(_)
UnmarshalProperties(st) ==
    IF st.nil THEN Unmarshaled(EmptyMap)
    ELSE LET keys == StablePropertyKeys(st.Fields)
             rs == [i \in 1..Len(keys) |-> UnmarshalPropertyValue(st.Fields[keys[i]])]
             rk == [k \in DOMAIN st.Fields |-> UnmarshalPropertyValue(st.Fields[k])]
         IN  IF FirstFault(rs, 1) # "none" THEN UnmarshalFault(FirstFault(rs, 1))
             ELSE Unmarshaled([k \in DOMAIN st.Fields |-> rk[k].val])

UnmarshalPropertyValue(w) ==
    IF w.wk # "nil"
    THEN IF w.wk = "NullValue" THEN Unmarshaled(NewNullProperty)
         ELSE IF w.wk = "BoolValue" THEN Unmarshaled(NewBoolProperty(w.wb))
         ELSE IF w.wk = "NumberValue" THEN Unmarshaled(NewNumberProperty(w.wn))
         ELSE IF w.wk = "StringValue" THEN Unmarshaled(NewStringProperty(w.ws))
         ELSE IF w.wk = "ListValue" THEN
             LET lst == GetValues(w)
                 rs == [i \in 1..Len(lst) |-> UnmarshalPropertyValue(lst[i])]
             IN  IF FirstFault(rs, 1) # "none" THEN UnmarshalFault(FirstFault(rs, 1))
                 ELSE Unmarshaled(NewArrayProperty([i \in 1..Len(lst) |-> rs[i].val]))
         ELSE IF w.wk = "StructValue" THEN
             LET r == UnmarshalProperties(Struct(w.fields))
             IN  IF r.fault # "none" THEN r ELSE Unmarshaled(NewObjectProperty(r.val))
         ELSE UnrecognizedKind
    ELSE Unmarshaled(NewNullProperty)

----------------------------------------------------------------------------
(* Marshal, then unmarshal: a map of plain JSON-like values goes through   *)
(* MarshalProperties with empty options, the struct it returns through     *)
(* UnmarshalProperties.                                                    *)

JsonLeaves ==
    {NewNullProperty, NewBoolProperty(TRUE), NewBoolProperty(FALSE),
     NewNumberProperty(1), NewStringProperty("s")}

InitRoundTrip ==
    /\ props \in MapsUpTo(JsonLeaves, FALSE, MaxNodes)
    /\ ctx \in {NilContext, MarshalContext}
    /\ opts = MarshalOptions(FALSE, FALSE)
    /\ value = NewNullProperty
    /\ wireIn = WNil
    /\ key = "a"
    /\ req = FALSE
    /\ pc = "input"
    /\ out = [fault |-> "none"]

UnmarshalMarshaled ==
    /\ pc = "MarshalProperties"
    /\ out.fault = "none"
    /\ out' = UnmarshalProperties(Struct(out.fields))
    /\ pc' = "UnmarshalProperties"
    /\ UNCHANGED <<props, ctx, opts, value, wireIn, key, req>>

NextRoundTrip == CallMarshalProperties \/ UnmarshalMarshaled

SpecRoundTrip == InitRoundTrip /\ [][NextRoundTrip]_vars

----------------------------------------------------------------------------
(* Unmarshaling a wire value of any shape.                                 *)

\* Largest nesting of lists and structs in an unmarshaled wire value.
MaxWireDepth == 1

WireLeaves == {WNil, WUnset, WNull, WBool(TRUE), WNumber(1), WString("s")}

RECURSIVE WiresOfDepth(_)
WiresOfDepth(d) ==
    IF d = 0 THEN WireLeaves \cup {WList(<<>>), WStruct(EmptyMap)}
    ELSE LET S == WiresOfDepth(d - 1)
         IN  S \cup {WList(<<x>>) : x \in S}
               \cup {WList(<<x, y>>) : x \in S, y \in S}
               \cup {WStruct(m) : m \in UNION {[D -> S] : D \in SUBSET Keys}}

InitUnmarshal ==
    /\ wireIn \in WiresOfDepth(MaxWireDepth)
    /\ props = EmptyMap
    /\ ctx = NilContext
    /\ opts = MarshalOptions(FALSE, FALSE)
    /\ value = NewNullProperty
    /\ key = "a"
    /\ req = FALSE
    /\ pc = "input"
    /\ out = [fault |-> "none"]

CallUnmarshalPropertyValue ==
    /\ pc = "input"
    /\ out' = UnmarshalPropertyValue(wireIn)
    /\ pc' = "UnmarshalPropertyValue"
    /\ UNCHANGED <<props, ctx, opts, value, wireIn, key, req>>

\* UnmarshalProperties on a nil struct pointer or on the struct in wireIn.
CallUnmarshalProperties ==
    /\ pc = "input"
    /\ wireIn.wk \in {"nil", "StructValue"}
    /\ out' = UnmarshalProperties(IF wireIn.wk = "nil" THEN NilStruct
                                  ELSE Struct(wireIn.fields))
    /\ pc' = "UnmarshalProperties"
    /\ UNCHANGED <<props, ctx, opts, value, wireIn, key, req>>

NextUnmarshal == CallUnmarshalPropertyValue \/ CallUnmarshalProperties

SpecUnmarshal == InitUnmarshal /\ [][NextUnmarshal]_vars

----------------------------------------------------------------------------
(* Marshaling a resource value under every context and every option.       *)

\* IDs of live resources and of the prior deployment; "" is the missing ID.
NewIDs == {"", "id-1"}
OldIDs == {"", "old-1"}

PartialMaps(D, R) == UNION {[X -> R] : X \in SUBSET D}

Contexts ==
    {NilContext}
    \cup {NewContext(res, olds) : res \in PartialMaps(URNs, NewIDs),
                                  olds \in PartialMaps(URNs, OldIDs)}

InitResource ==
    /\ value \in {NewResourceProperty(u) : u \in URNs}
    /\ ctx \in Contexts
    /\ opts \in {MarshalOptions(p, r) : p \in BOOLEAN, r \in BOOLEAN}
    /\ props = EmptyMap
    /\ wireIn = WNil
    /\ key = "a"
    /\ req = FALSE
    /\ pc = "input"
    /\ out = [fault |-> "none"]

CallMarshalPropertyValue ==
    /\ pc = "input"
    /\ out' = MarshalPropertyValue(ctx, value, opts)
    /\ pc' = "MarshalPropertyValue"
    /\ UNCHANGED <<props, ctx, opts, value, wireIn, key, req>>

NextResource == CallMarshalPropertyValue

SpecResource == InitResource /\ [][NextResource]_vars

----------------------------------------------------------------------------
(* The typed accessors on maps holding every variant.                      *)

AccessorValues ==
    {NewNullProperty, NewBoolProperty(TRUE), NewNumberProperty(1), NewStringProperty("s"),
     NewArrayProperty(<<>>),
     NewArrayProperty(<<NewStringProperty("s")>>),
     NewArrayProperty(<<NewObjectProperty(EmptyMap)>>),
     NewArrayProperty(<<NewStringProperty("s"), NewObjectProperty(EmptyMap)>>),
     NewArrayProperty(<<NewObjectProperty(EmptyMap), NewStringProperty("s"),
                        NewNumberProperty(1)>>),
     NewArrayProperty(<<NewStringProperty("s"), NewObjectProperty(EmptyMap),
                        NewNullProperty>>),
     NewObjectProperty(EmptyMap),
     NewResourceProperty("urn:1"),
     MakeComputed(NewStringProperty("s")),
     MakeOutput(NewStringProperty("s"))}

InitAccessors ==
    /\ props \in PartialMaps(Keys, AccessorValues)
    /\ key \in Keys
    /\ req \in BOOLEAN
    /\ ctx = NilContext
    /\ opts = MarshalOptions(FALSE, FALSE)
    /\ value = NewNullProperty
    /\ wireIn = WNil
    /\ pc = "input"
    /\ out = [fault |-> "none"]

CallOrErr ==
    /\ pc = "input"
    /\ \E a \in Accessors :
         /\ out' = OrErr(a, props, key, req)
         /\ pc' = a \o "OrErr"
    /\ UNCHANGED <<props, ctx, opts, value, wireIn, key, req>>

CallReqOrErr ==
    /\ pc = "input"
    /\ \E a \in Accessors :
         /\ out' = ReqOrErr(a, props, key)
         /\ pc' = "Req" \o a \o "OrErr"
    /\ UNCHANGED <<props, ctx, opts, value, wireIn, key, req>>

CallOptOrErr ==
    /\ pc = "input"
    /\ \E a \in Accessors :
         /\ out' = OptOrErr(a, props, key)
         /\ pc' = "Opt" \o a \o "OrErr"
    /\ UNCHANGED <<props, ctx, opts, value, wireIn, key, req>>

NextAccessors == CallOrErr \/ CallReqOrErr \/ CallOptOrErr

SpecAccessors == InitAccessors /\ [][NextAccessors]_vars

----------------------------------------------------------------------------
(* ReplaceResources (properties.go).  A call returns the rebuilt tree in   *)
(* val and leaves its receiver as self: the storage of the receiver's      *)
(* arrays and maps after the call.                                         *)

\* URNs an updater may introduce beside the ones of the tree.
NewURNs == URNs \cup {"urn:3"}

\* The updaters: every function from the URNs of a tree to NewURNs.
Updaters == [URNs -> NewURNs]

Replaced(v, s) == [val |-> v, self |-> s]

MutApplyUpdater(updater, m) == m
\* Line 600: updater(m).
ApplyUpdater(updater, m) == updater[m]

MutMakeElems(rs) == [i \in 1..(Len(rs) - 1) |-> rs[i].val]
\* Lines 603-606: elems, made with the length of arr, filled index by index
\* from the results rs of the calls on the elements.
MakeElems(rs) == [i \in 1..Len(rs) |-> rs[i].val]

RECURSIVE PropertyValueReplaceResources(_, _), PropertyMapReplaceResources(_, _)
PropertyMapReplaceResources(m, updater) ==
    LET keys == StablePropertyKeys(m)
        rk == [k \in {keys[i] : i \in 1..Len(keys)} |->
                  PropertyValueReplaceResources(m[k], updater)]
    IN  Replaced([k \in DOMAIN rk |-> rk[k].val],
                 [k \in DOMAIN m |-> IF k \in DOMAIN rk THEN rk[k].self ELSE m[k]])

PropertyValueReplaceResources(v, updater) ==
    IF IsResource(v)
    THEN Replaced(NewResourceProperty(ApplyUpdater(updater, ResourceValue(v))), v)
    ELSE IF IsArray(v)
    THEN LET arr == ArrayValue(v)
             rs == [i \in 1..Len(arr) |-> PropertyValueReplaceResources(arr[i], updater)]
         IN  Replaced(NewArrayProperty(MakeElems(rs)),
                      NewArrayProperty([i \in 1..Len(arr) |-> rs[i].self]))
    ELSE IF IsObject(v)
    THEN LET rep == PropertyMapReplaceResources(ObjectValue(v), updater)
         IN  Replaced(NewObjectProperty(rep.val), NewObjectProperty(rep.self))
    ELSE Replaced(v, v)

InitReplace ==
    /\ props \in MapsUpTo(MarshalLeaves, TRUE, MaxNodes)
    /\ ctx = NilContext
    /\ opts = MarshalOptions(FALSE, FALSE)
    /\ value = NewNullProperty
    /\ wireIn = WNil
    /\ key = "a"
    /\ req = FALSE
    /\ pc = "input"
    /\ out = [fault |-> "none"]

\* m.ReplaceResources(updater): out keeps the updater, the receiver as it
\* was passed (arg) and the returned map; props is the receiver afterwards.
CallReplaceResources ==
    /\ pc = "input"
    /\ \E updater \in Updaters :
         LET r == PropertyMapReplaceResources(props, updater)
         IN  /\ out' = [fault |-> "none", updater |-> updater, arg |-> props,
                        val |-> r.val]
             /\ props' = r.self
    /\ pc' = "PropertyMap.ReplaceResources"
    /\ UNCHANGED <<ctx, opts, value, wireIn, key, req>>

\* m.AllResources() on the receiver, and AllResources() of the returned map.
CallAllResourcesOfReplaced ==
    /\ pc = "PropertyMap.ReplaceResources"
    /\ out' = [fault |-> "none", updater |-> out.updater, arg |-> out.arg,
               val |-> out.val,
               before |-> PropertyMapAllResources(props),
               urns |-> PropertyMapAllResources(out.val)]
    /\ pc' = "AllResources of ReplaceResources"
    /\ UNCHANGED <<props, ctx, opts, value, wireIn, key, req>>

NextReplace == CallReplaceResources \/ CallAllResourcesOfReplaced

SpecReplace == InitReplace /\ [][NextReplace]_vars

----------------------------------------------------------------------------
(* NewPropertyValue (properties.go) on native Go values.  A native value   *)
(* is a record tagged by what the type switch and reflect.Kind see of it.  *)
(* The order in which Go ranges over a map is unspecified, so a call has a *)
(* set of possible results.                                                *)

\* Largest number of nodes of a native value.
MaxNativeNodes == 3

GoNil == [go |-> "nil"]
GoBool(x) == [go |-> "bool", gb |-> x]
GoFloat64(x) == [go |-> "float64", gf |-> x]
GoString(x) == [go |-> "string", gs |-> x]
GoURN(x) == [go |-> "URN", gu |-> x]
GoComputed(x) == [go |-> "Computed", gc |-> x]
\* A value of a kind the switches do not list (reflect.Int).
GoInt(x) == [go |-> "int", gi |-> x]
GoSlice(x) == [go |-> "slice", items |-> x]
\* A nil pointer of some pointer type, and a pointer to x.
GoNilPtr == [go |-> "nil ptr"]
GoPtr(x) == [go |-> "ptr", to |-> x]
\* A map with keys of kind string, a map with keys of kind int, a struct
\* with the given exported fields.
GoMap(x) == [go |-> "map", entries |-> x]
GoIntMap(x) == [go |-> "int map", ientries |-> x]
GoStruct(x) == [go |-> "struct", flds |-> x]

IntKeyOrder == <<1, 2>>
FieldOrder == <<"A", "B">>

NativeLeaves ==
    {GoNil, GoBool(TRUE), GoFloat64(1), GoString("s"), GoURN("urn:1"),
     GoComputed(NewStringProperty("s")), GoInt(1), GoNilPtr}

\* Every native value with exactly n nodes; NativeSeqs and NativeMaps are
\* the non-empty sequences, and the non-empty maps over the keys KO[j..],
\* with t nodes in total.
RECURSIVE NativesOfSize(_), NativeSeqs(_), NativeMaps(_, _, _)
NativesOfSize(n) ==
    IF n = 1
    THEN NativeLeaves \cup {GoSlice(<<>>), GoMap(<<>>), GoIntMap(<<>>), GoStruct(<<>>)}
    ELSE {GoPtr(v) : v \in NativesOfSize(n - 1)}
         \cup {GoSlice(s) : s \in NativeSeqs(n - 1)}
         \cup {GoMap(m) : m \in NativeMaps(KeyOrder, 1, n - 1)}
         \cup {GoIntMap(m) : m \in NativeMaps(IntKeyOrder, 1, n - 1)}
         \cup {GoStruct(m) : m \in NativeMaps(FieldOrder, 1, n - 1)}

NativeSeqs(t) ==
    UNION {{<<v>> \o r : v \in NativesOfSize(i),
                         r \in (IF i = t THEN {<<>>} ELSE NativeSeqs(t - i))}
           : i \in 1..t}

NativeMaps(KO, j, t) ==
    IF j > Len(KO) THEN {}
    ELSE NativeMaps(KO, j + 1, t)
         \cup UNION {{(KO[j] :> v) @@ r :
                          v \in NativesOfSize(i),
                          r \in (IF i = t THEN {<<>>} ELSE NativeMaps(KO, j + 1, t - i))}
                     : i \in 1..t}

Natives == UNION {NativesOfSize(n) : n \in 1..MaxNativeNodes}

Constructed(v) == [fault |-> "none", pv |-> v]
\* Line 480: contract.Failf("Unrecognized value type: %v", rk).
UnrecognizedType == [fault |-> "unrecognized value type", pv |-> NewNullProperty]

\* Every way to take one result for each index or key of the function S of
\* result sets.
Picks(S) ==
    {f \in [DOMAIN S -> UNION {S[i] : i \in DOMAIN S}] : \A i \in DOMAIN S : f[i] \in S[i]}

\* The results f of the calls on the parts of a value: the fault of a part
\* ends the call, else make(f) is returned.
Faulted(f) == \E i \in DOMAIN f : f[i].fault # "none"

\* reflect.Value.String() of a map key: the string of a key of kind string,
\* "<T Value>" for a key of any other type T.
KeyString(kind, kv) == IF kind = "string" THEN kv ELSE "<" \o kind \o " Value>"

\* Lines 470-473: m, filled key by key in the order MapKeys() lists them;
\* keys with the same String() overwrite each other, the last one stays.
StringifiedMaps(kind, e) ==
    IF DOMAIN e = {} THEN {<<>>}
    ELSE {[s \in {KeyString(kind, kv) : kv \in DOMAIN e} |-> e[last[s]]] :
            last \in {l \in [{KeyString(kind, kv) : kv \in DOMAIN e} -> DOMAIN e] :
                        \A s \in DOMAIN l : KeyString(kind, l[s]) = s}}

\* structs.Map(s): the exported fields of s by name.
StructsMap(s) == s.flds

\* The Object constructor the map and struct branches call.
NewPropertyObject(obj) == NewObjectProperty(obj)

RECURSIVE NewPropertyValue(_), NewPropertyMapFromMap(_)
NewPropertyMapFromMap(m) ==
    {IF Faulted(f) THEN UnrecognizedType
     ELSE Constructed([k \in DOMAIN m |-> f[k].pv])
       : f \in Picks([k \in DOMAIN m |-> NewPropertyValue(m[k])])}

NewPropertyMap(s) == NewPropertyMapFromMap(StructsMap(s))

NewPropertyValue(v) ==
    IF v.go = "nil" THEN {Constructed(NewNullProperty)}
    ELSE IF v.go = "bool" THEN {Constructed(NewBoolProperty(v.gb))}
    ELSE IF v.go = "float64" THEN {Constructed(NewNumberProperty(v.gf))}
    ELSE IF v.go = "string" THEN {Constructed(NewStringProperty(v.gs))}
    ELSE IF v.go = "URN" THEN {Constructed(NewResourceProperty(v.gu))}
    ELSE IF v.go = "Computed" THEN {Constructed(NewComputedProperty(v.gc))}
    ELSE IF v.go = "slice"
    THEN {IF Faulted(f) THEN UnrecognizedType
          ELSE Constructed(NewArrayProperty([i \in 1..Len(v.items) |-> f[i].pv]))
            : f \in Picks([i \in 1..Len(v.items) |-> NewPropertyValue(v.items[i])])}
    ELSE IF v.go = "nil ptr" THEN {Constructed(NewNullProperty)}
    ELSE IF v.go = "ptr" THEN NewPropertyValue(v.to)
    ELSE IF v.go \in {"map", "int map"}
    THEN LET ms == IF v.go = "map" THEN StringifiedMaps("string", v.entries)
                   ELSE StringifiedMaps("int", v.ientries)
         IN  UNION {{IF obj.fault # "none" THEN UnrecognizedType
                     ELSE Constructed(NewPropertyObject(obj.pv))
                       : obj \in NewPropertyMapFromMap(m)} : m \in ms}
    ELSE IF v.go = "struct"
    THEN {IF obj.fault # "none" THEN UnrecognizedType
          ELSE Constructed(NewPropertyObject(obj.pv))
            : obj \in NewPropertyMap(v)}
    ELSE {UnrecognizedType}

InitConstruct ==
    /\ props = EmptyMap
    /\ ctx = NilContext
    /\ opts = MarshalOptions(FALSE, FALSE)
    /\ value = NewNullProperty
    /\ wireIn = WNil
    /\ key = "a"
    /\ req = FALSE
    /\ pc = "input"
    /\ out = [fault |-> "none"]

\* NewPropertyValue(v): out keeps the argument beside the result; value is
\* the PropertyValue returned.
CallNewPropertyValue ==
    /\ pc = "input"
    /\ \E v \in Natives :
         \E r \in NewPropertyValue(v) :
             /\ out' = [fault |-> r.fault, arg |-> v]
             /\ value' = r.pv
    /\ pc' = "NewPropertyValue"
    /\ UNCHANGED <<props, ctx, opts, wireIn, key, req>>

NextConstruct == CallNewPropertyValue

SpecConstruct == InitConstruct /\ [][NextConstruct]_vars

----------------------------------------------------------------------------
(* Marshaling and resource discovery on the same map, RawURNs unset, under *)
(* contexts that serve urn:1 from the live map, from the prior deployment, *)
(* with an empty live ID in front of a prior one, or not at all; urn:2 is  *)
(* unknown to all of them.                                                 *)

ResolveContexts ==
    {NilContext,
     MarshalContext,
     NewContext(EmptyMap, [u \in {"urn:1"} |-> "old-1"]),
     NewContext([u \in {"urn:1"} |-> ""], [u \in {"urn:1"} |-> "old-1"])}

InitResolve ==
    /\ props \in MapsUpTo({NewResourceProperty(u) : u \in URNs}, TRUE, MaxNodes)
    /\ ctx \in ResolveContexts
    /\ opts \in {MarshalOptions(p, FALSE) : p \in BOOLEAN}
    /\ value = NewNullProperty
    /\ wireIn = WNil
    /\ key = "a"
    /\ req = FALSE
    /\ pc = "input"
    /\ out = [fault |-> "none"]

NextResolve == CallMarshalPropertiesWithUnknowns \/ CallAllResources

SpecResolve == InitResolve /\ [][NextResolve]_vars

----------------------------------------------------------------------------
(* Shapes of property trees, read off the tree alone.                      *)

\* A Computed value anywhere in the tree of v, wrappers included.
RECURSIVE ContainsComputed(_)
ContainsComputed(v) ==
    \/ v.kind = "computed"
    \/ v.kind = "output" /\ ContainsComputed(v.ov)
    \/ v.kind = "array" /\ \E i \in 1..Len(v.elems) : ContainsComputed(v.elems[i])
    \/ v.kind = "object" /\ \E k \in DOMAIN v.obj : ContainsComputed(v.obj[k])

\* A Computed or Output value anywhere in the tree of v.
RECURSIVE ContainsWrapper(_)
ContainsWrapper(v) ==
    \/ v.kind \in {"computed", "output"}
    \/ v.kind = "array" /\ \E i \in 1..Len(v.elems) : ContainsWrapper(v.elems[i])
    \/ v.kind = "object" /\ \E k \in DOMAIN v.obj : ContainsWrapper(v.obj[k])

\* A Computed value in the tree of v that no Output-valued entry of a nested
\* object encloses.
RECURSIVE ComputedOutsideOutputEntries(_)
ComputedOutsideOutputEntries(v) ==
    \/ v.kind = "computed"
    \/ v.kind = "output" /\ ComputedOutsideOutputEntries(v.ov)
    \/ v.kind = "array"
       /\ \E i \in 1..Len(v.elems) : ComputedOutsideOutputEntries(v.elems[i])
    \/ v.kind = "object"
       /\ \E k \in DOMAIN v.obj :
            v.obj[k].kind # "output" /\ ComputedOutsideOutputEntries(v.obj[k])

\* A Computed value, or an Output value that is not an entry of an object,
\* in the tree of v outside every Output-valued object entry.
RECURSIVE Tainted(_)
Tainted(v) ==
    \/ v.kind \in {"computed", "output"}
    \/ v.kind = "array" /\ \E i \in 1..Len(v.elems) : Tainted(v.elems[i])
    \/ v.kind = "object"
       /\ \E k \in DOMAIN v.obj : v.obj[k].kind # "output" /\ Tainted(v.obj[k])

\* An Output value that is an element of an array or an entry of an object
\* of v (one level down).
OutputInArray(v) == v.kind = "array" /\ \E i \in 1..Len(v.elems) : v.elems[i].kind = "output"
OutputInObject(v) == v.kind = "object" /\ \E k \in DOMAIN v.obj : v.obj[k].kind = "output"

\* The URNs of all Resource values of the tree of v, wrappers included.
RECURSIVE URNsAnywhere(_)
URNsAnywhere(v) ==
    IF v.kind = "resource" THEN {v.urn}
    ELSE IF v.kind = "computed" THEN URNsAnywhere(v.cv)
    ELSE IF v.kind = "output" THEN URNsAnywhere(v.ov)
    ELSE IF v.kind = "array" THEN UNION {URNsAnywhere(v.elems[i]) : i \in 1..Len(v.elems)}
    ELSE IF v.kind = "object" THEN UNION {URNsAnywhere(v.obj[k]) : k \in DOMAIN v.obj}
    ELSE {}

\* The URN u resolves to a non-empty ID under the context and options.
Resolves(c, o, u) ==
    \/ o.RawURNs
    \/ /\ ~c.nil
       /\ \/ u \in DOMAIN c.URNRes /\ c.URNRes[u] # ""
          \/ /\ u \notin DOMAIN c.URNRes
             /\ o.PermitOlds
             /\ u \in DOMAIN c.URNOldIDs
             /\ c.URNOldIDs[u] # ""

\* The wire value w has the shape the tree v prescribes: a list element per
\* array element, a field per object entry that is not an Output, a wrapper
\* replaced by its eventual value.
RECURSIVE Conforms(_, _)
Conforms(v, w) ==
    IF v.kind = "string" THEN w = [wk |-> "StringValue", ws |-> v.s]
    ELSE IF v.kind = "resource" THEN w.wk = "StringValue"
    ELSE IF v.kind = "computed" THEN Conforms(v.cv, w)
    ELSE IF v.kind = "output" THEN Conforms(v.ov, w)
    ELSE IF v.kind = "array"
    THEN /\ w.wk = "ListValue"
         /\ Len(w.values) = Len(v.elems)
         /\ \A i \in 1..Len(v.elems) : Conforms(v.elems[i], w.values[i])
    ELSE IF v.kind = "object"
    THEN /\ w.wk = "StructValue"
         /\ DOMAIN w.fields = {k \in DOMAIN v.obj : v.obj[k].kind # "output"}
         /\ \A k \in DOMAIN w.fields : Conforms(v.obj[k], w.fields[k])
    ELSE w.wk = "NullValue"

Returned(op) == pc = op /\ out.fault = "none"

----------------------------------------------------------------------------
(* Claims about MarshalPropertiesWithUnknowns and MarshalProperties.       *)

\* C1 as stated: every top-level key whose value contains a Computed value
\* anywhere in its tree, wrappers included, is in the returned unknown set.
C1_AsStated ==
    Returned("MarshalPropertiesWithUnknowns") =>
        \A k \in DOMAIN props : ContainsComputed(props[k]) => k \in out.unk

\* C1, amended: every top-level key whose value is not an Output and contains
\* a Computed value that no Output-valued object entry encloses is in the
\* returned unknown set.
C1_ComputedTaintsKey ==
    Returned("MarshalPropertiesWithUnknowns") =>
        \A k \in DOMAIN props :
            props[k].kind # "output" /\ ComputedOutsideOutputEntries(props[k])
                => k \in out.unk

\* A Computed value two levels down (inside an object inside an array) has
\* tainted its top-level key.
C1_Witness ==
    /\ Returned("MarshalPropertiesWithUnknowns")
    /\ \E k \in DOMAIN props :
         /\ props[k].kind = "array"
         /\ Len(props[k].elems) = 1
         /\ props[k].elems[1].kind = "object"
         /\ \E f \in DOMAIN props[k].elems[1].obj :
              props[k].elems[1].obj[f].kind = "computed"
         /\ k \in out.unk

\* C2 as stated: an Output value that is an element of an array or an entry
\* of a nested object contributes an element/field to the wire value and
\* puts the enclosing top-level key into the unknown set.
C2_AsStated ==
    Returned("MarshalPropertiesWithUnknowns") =>
        \A k \in DOMAIN props :
            /\ OutputInArray(props[k]) =>
                 /\ k \in out.unk
                 /\ Len(out.fields[k].values) = Len(props[k].elems)
            /\ OutputInObject(props[k]) =>
                 /\ k \in out.unk
                 /\ DOMAIN out.fields[k].fields = DOMAIN props[k].obj

\* C2, amended: below a top-level key that is not an Output, an Output value
\* that is an array element is marshaled via its eventual value (the wire
\* list has an element for it) and taints the key; an Output value that is an
\* entry of a nested object is skipped like a top-level one (no field for
\* it, no taint from it): the key is unknown exactly when its value holds a
\* Computed value, or an Output array element, outside every skipped entry.
C2_NestedOutput ==
    Returned("MarshalPropertiesWithUnknowns") =>
        \A k \in DOMAIN props :
            props[k].kind # "output" =>
                /\ Conforms(props[k], out.fields[k])
                /\ k \in out.unk <=> Tainted(props[k])

\* A key holding an array with an Output element has been marshaled: the
\* wire list has the element and the key is unknown.
C2_Witness ==
    /\ Returned("MarshalPropertiesWithUnknowns")
    /\ \E k \in DOMAIN props :
         /\ OutputInArray(props[k])
         /\ k \in out.unk
         /\ Len(out.fields[k].values) = Len(props[k].elems)

\* The map without its Output-valued entries.
WithoutOutputs(m) == [k \in {x \in DOMAIN m : m[x].kind # "output"} |-> m[k]]

\* C3: a top-level Output entry is skipped: its key is in neither the wire
\* struct nor the unknown set and its eventual value is not marshaled (the
\* call ends exactly as on the map without its Output entries, fault or
\* not); every other top-level key is a field of the wire struct.
C3_TopLevelOutputSkipped ==
    pc = "MarshalPropertiesWithUnknowns" =>
        /\ out = MarshalPropertiesWithUnknowns(ctx, WithoutOutputs(props), opts)
        /\ out.fault = "none" =>
             /\ DOMAIN out.fields = {k \in DOMAIN props : props[k].kind # "output"}
             /\ \A k \in DOMAIN props : props[k].kind = "output" => k \notin out.unk
        /\ (\A k \in DOMAIN props : props[k].kind = "output") => out.fault = "none"

\* A map with an Output entry whose eventual value holds a URN that does
\* not resolve, and another entry: the call returned, with the other key
\* alone in the wire struct.
C3_Witness ==
    /\ Returned("MarshalPropertiesWithUnknowns")
    /\ ~opts.RawURNs
    /\ \E k \in DOMAIN props :
         /\ props[k].kind = "output"
         /\ \E u \in URNsAnywhere(props[k]) : ~Resolves(ctx, opts, u)
         /\ k \notin DOMAIN out.fields
    /\ \E k \in DOMAIN props : props[k].kind # "output" /\ k \in DOMAIN out.fields

AllResolve(m) == \A k \in DOMAIN m : \A u \in URNsAnywhere(m[k]) : Resolves(ctx, opts, u)

\* C4 as stated, a fault of any kind counted as the assertion: a Computed
\* value anywhere makes MarshalProperties fault; without Computed and Output
\* values, and with resolving resources, it returns a struct with every key.
C4_AsStated ==
    pc = "MarshalProperties" =>
        /\ (\E k \in DOMAIN props : ContainsComputed(props[k])) => out.fault # "none"
        /\ (AllResolve(props) /\ \A k \in DOMAIN props : ~ContainsWrapper(props[k]))
             => out.fault = "none" /\ DOMAIN out.fields = DOMAIN props

\* C4, amended: a Computed value that no Output-valued entry (of the map or
\* of a nested object) encloses makes MarshalProperties fault: with the
\* final-marshal assertion when all Resource values resolve, else possibly
\* with the resolution fault met first.  Without Computed and Output values
\* and with resolving resources it returns a struct with every key.
C4_FinalMarshal ==
    pc = "MarshalProperties" =>
        /\ (\E k \in DOMAIN props :
               props[k].kind # "output" /\ ComputedOutsideOutputEntries(props[k]))
             => /\ out.fault # "none"
                /\ AllResolve(props) => out.fault = "unknown properties"
        /\ (AllResolve(props) /\ \A k \in DOMAIN props : ~ContainsWrapper(props[k]))
             => out.fault = "none" /\ DOMAIN out.fields = DOMAIN props

\* The assertion has fired on a Computed value nested in an array.
C4_Witness ==
    /\ pc = "MarshalProperties"
    /\ out.fault = "unknown properties"
    /\ \E k \in DOMAIN props :
         props[k].kind = "array" /\ ComputedOutsideOutputEntries(props[k])

----------------------------------------------------------------------------
(* Claims about unmarshaling.                                              *)

\* Two property values are structurally equal: same variant, same scalar,
\* same array length and order, same keys at every object level.
RECURSIVE SameStructure(_, _)
SameStructure(v, w) ==
    /\ v.kind = w.kind
    /\ v.kind = "bool" => v.b = w.b
    /\ v.kind = "number" => v.n = w.n
    /\ v.kind = "string" => v.s = w.s
    /\ v.kind = "array" =>
         /\ Len(v.elems) = Len(w.elems)
         /\ \A i \in 1..Len(v.elems) : SameStructure(v.elems[i], w.elems[i])
    /\ v.kind = "object" =>
         /\ DOMAIN v.obj = DOMAIN w.obj
         /\ \A k \in DOMAIN v.obj : SameStructure(v.obj[k], w.obj[k])

\* C5: a map without Resource, Computed and Output values is marshaled by
\* MarshalProperties without fault, and UnmarshalProperties of the result
\* is structurally equal to the map.
C5_RoundTrip ==
    /\ pc = "MarshalProperties" => out.fault = "none"
    /\ pc = "UnmarshalProperties" =>
         /\ out.fault = "none"
         /\ DOMAIN out.val = DOMAIN props
         /\ \A k \in DOMAIN props : SameStructure(props[k], out.val[k])

\* A map with a Null entry and an array holding an empty object has come
\* back from the round trip.
C5_Witness ==
    /\ pc = "UnmarshalProperties"
    /\ out.fault = "none"
    /\ \E k \in DOMAIN props : props[k].kind = "null" /\ out.val[k].kind = "null"
    /\ \E k \in DOMAIN props :
         /\ props[k] = NewArrayProperty(<<NewObjectProperty(EmptyMap)>>)
         /\ out.val[k] = props[k]

\* A wire value of an unrecognized kind somewhere in w.
RECURSIVE ContainsUnset(_)
ContainsUnset(w) ==
    \/ w.wk = "unset"
    \/ w.wk = "ListValue" /\ \E i \in 1..Len(w.values) : ContainsUnset(w.values[i])
    \/ w.wk = "StructValue" /\ \E k \in DOMAIN w.fields : ContainsUnset(w.fields[k])

\* C8 as stated: UnmarshalPropertyValue faults on a nil wire value and on
\* one of an unrecognized kind.
C8_AsStated ==
    pc = "UnmarshalPropertyValue" /\ wireIn.wk \in {"nil", "unset"}
        => out.fault # "none"

\* C8, amended: UnmarshalPropertyValue faults, returning nothing, exactly
\* when the wire value or one nested in it is of an unrecognized kind; on a
\* nil wire value it returns the Null property value.
C8_UnmarshalFaults ==
    pc = "UnmarshalPropertyValue" =>
        /\ out.fault # "none" <=> ContainsUnset(wireIn)
        /\ wireIn.wk = "unset" => out.fault = "unrecognized structpb value kind"
        /\ wireIn.wk = "nil" => out.fault = "none" /\ out.val.kind = "null"

\* UnmarshalPropertyValue has faulted on a value of an unrecognized kind.
C8_Witness ==
    /\ pc = "UnmarshalPropertyValue"
    /\ wireIn.wk = "unset"
    /\ out.fault = "unrecognized structpb value kind"

----------------------------------------------------------------------------
(* Claims about marshaling a resource value.                               *)

\* C6: a marshaled resource value is a known wire string: the URN's text
\* with RawURNs, whatever the context, nil included; else the ID of the
\* live resource; else, only with PermitOlds, the prior-deployment ID.
C6_ResourcePrecedence ==
    pc = "MarshalPropertyValue" /\ value.kind = "resource" =>
        LET u == value.urn
        IN  /\ opts.RawURNs =>
                 out = [fault |-> "none", wire |-> [wk |-> "StringValue", ws |-> u],
                        known |-> TRUE]
            /\ ~opts.RawURNs /\ out.fault = "none" =>
                 /\ out.known
                 /\ out.wire.wk = "StringValue"
                 /\ u \in DOMAIN ctx.URNRes => out.wire.ws = ctx.URNRes[u]
                 /\ u \notin DOMAIN ctx.URNRes =>
                      /\ opts.PermitOlds
                      /\ u \in DOMAIN ctx.URNOldIDs
                      /\ out.wire.ws = ctx.URNOldIDs[u]

\* With PermitOlds, a URN that only the prior deployment knows has been
\* marshaled as its old ID.
C6_Witness ==
    /\ pc = "MarshalPropertyValue"
    /\ value.kind = "resource"
    /\ ~opts.RawURNs
    /\ opts.PermitOlds
    /\ ~ctx.nil
    /\ value.urn \notin DOMAIN ctx.URNRes
    /\ out.fault = "none"
    /\ out.wire = [wk |-> "StringValue", ws |-> "old-1"]

\* C7: without RawURNs, marshaling a resource value faults when the context
\* is nil, when no map serves the URN, when only the prior-deployment map
\* holds it and PermitOlds is off, and when the resolved ID is empty, also
\* when a usable old ID exists behind an empty live one.
C7_ResourceFaults ==
    pc = "MarshalPropertyValue" /\ value.kind = "resource" /\ ~opts.RawURNs =>
        LET u == value.urn
        IN  /\ ctx.nil => out.fault = "nil context"
            /\ ~ctx.nil =>
                 /\ (u \notin DOMAIN ctx.URNRes /\ u \notin DOMAIN ctx.URNOldIDs)
                      => out.fault = "urn missing"
                 /\ (u \notin DOMAIN ctx.URNRes /\ ~opts.PermitOlds)
                      => out.fault = "urn missing"
                 /\ (u \in DOMAIN ctx.URNRes /\ ctx.URNRes[u] = "")
                      => out.fault = "empty id"
                 /\ (u \notin DOMAIN ctx.URNRes /\ opts.PermitOlds
                        /\ u \in DOMAIN ctx.URNOldIDs /\ ctx.URNOldIDs[u] = "")
                      => out.fault = "empty id"

\* The live resource has an empty ID, the prior deployment a usable one,
\* PermitOlds is set: the call has faulted.
C7_Witness ==
    /\ pc = "MarshalPropertyValue"
    /\ value.kind = "resource"
    /\ ~opts.RawURNs
    /\ opts.PermitOlds
    /\ ~ctx.nil
    /\ value.urn \in DOMAIN ctx.URNRes
    /\ ctx.URNRes[value.urn] = ""
    /\ value.urn \in DOMAIN ctx.URNOldIDs
    /\ ctx.URNOldIDs[value.urn] = "old-1"
    /\ out.fault = "empty id"

----------------------------------------------------------------------------
(* Claims about the typed accessors.                                       *)

KindName ==
    [Bool |-> "bool", Number |-> "number", String |-> "string", Array |-> "array",
     Object |-> "object", Resource |-> "resource", Computed |-> "computed",
     Output |-> "output"]

\* The value v is of the kind the accessor family a asks for.
OfRequestedKind(a, v) ==
    IF a = "ObjectArray"
    THEN v.kind = "array" /\ \A i \in 1..Len(v.elems) : v.elems[i].kind = "object"
    ELSE IF a = "StringArray"
    THEN v.kind = "array" /\ \A i \in 1..Len(v.elems) : v.elems[i].kind = "string"
    ELSE v.kind = KindName[a]

\* The typed value the accessor family a hands out for v.
Payload(a, v) ==
    CASE a = "Bool" -> v.b
      [] a = "Number" -> v.n
      [] a = "String" -> v.s
      [] a = "Array" -> v.elems
      [] a = "ObjectArray" -> [i \in 1..Len(v.elems) |-> v.elems[i].obj]
      [] a = "StringArray" -> [i \in 1..Len(v.elems) |-> v.elems[i].s]
      [] a = "Object" -> v.obj
      [] a = "Resource" -> v.urn
      [] a = "Computed" -> v.cv
      [] a = "Output" -> v.ov

\* What <Kind>OrErr(key, r) must have returned.
PointerContract(a, r) ==
    LET present == key \in DOMAIN props /\ props[key].kind # "null"
    IN  /\ out.fault = "none"
        /\ present /\ OfRequestedKind(a, props[key]) =>
             /\ out.err = [err |-> "nil"]
             /\ out.val = [ptr |-> "to", at |-> Payload(a, props[key])]
        /\ ~present /\ ~r => out.val = [ptr |-> "nil"] /\ out.err = [err |-> "nil"]
        /\ ~present /\ r =>
             /\ out.err = [err |-> "ReqError", K |-> key]
             /\ IsReqError(out.err)
        /\ present /\ ~OfRequestedKind(a, props[key]) =>
             /\ out.err.err = "errors.Errorf"
             /\ out.err.K = key
             /\ ~IsReqError(out.err)

\* What Req<Kind>OrErr(key) must have returned.
ValueContract(a) ==
    LET present == key \in DOMAIN props /\ props[key].kind # "null"
    IN  /\ out.fault = "none"
        /\ present /\ OfRequestedKind(a, props[key]) =>
             /\ out.err = [err |-> "nil"]
             /\ out.val = Payload(a, props[key])
        /\ ~present =>
             /\ out.err = [err |-> "ReqError", K |-> key]
             /\ IsReqError(out.err)
        /\ present /\ ~OfRequestedKind(a, props[key]) =>
             /\ out.err.err = "errors.Errorf"
             /\ out.err.K = key
             /\ ~IsReqError(out.err)

\* C9: every accessor returns the typed value for a present, non-Null entry
\* of its kind; nil without error for an absent or Null entry that is not
\* required; a ReqError carrying the key for an absent or Null entry that
\* is required; a type error that is no ReqError for an entry of another
\* kind; and none of them panics.
C9_Accessors ==
    \A a \in Accessors :
        /\ pc = a \o "OrErr" => PointerContract(a, req)
        /\ pc = "Opt" \o a \o "OrErr" => PointerContract(a, FALSE)
        /\ pc = "Req" \o a \o "OrErr" => ValueContract(a)

\* ReqStringOrErr on a key that maps to Null has returned the ReqError for
\* that key.
C9_Witness ==
    /\ pc = "ReqStringOrErr"
    /\ key \in DOMAIN props
    /\ props[key].kind = "null"
    /\ IsReqError(out.err)
    /\ out.err.K = key

----------------------------------------------------------------------------
(* Claims about resource discovery.                                        *)

\* A Resource value carrying u in the tree of v, the tree being what arrays
\* and objects nest: eventual values of Computed and Output are not part.
RECURSIVE Occurs(_, _)
Occurs(u, v) ==
    \/ v.kind = "resource" /\ v.urn = u
    \/ v.kind = "array" /\ \E i \in 1..Len(v.elems) : Occurs(u, v.elems[i])
    \/ v.kind = "object" /\ \E k \in DOMAIN v.obj : Occurs(u, v.obj[k])

\* C10: AllResources returns exactly the URNs of the Resource values found
\* through arrays and objects, each once: a URN is a key of the returned
\* map, with value true, iff a Resource value of the tree carries it.
C10_AllResources ==
    /\ pc = "PropertyMap.AllResources" =>
         /\ \A u \in URNs :
              u \in DOMAIN out.urns <=> \E k \in DOMAIN props : Occurs(u, props[k])
         /\ DOMAIN out.urns \subseteq URNs
         /\ \A u \in DOMAIN out.urns : out.urns[u] = TRUE
    /\ pc = "PropertyValue.AllResources" =>
         /\ \A u \in URNs : u \in DOMAIN out.urns <=> Occurs(u, props[key])
         /\ DOMAIN out.urns \subseteq URNs
         /\ \A u \in DOMAIN out.urns : out.urns[u] = TRUE

\* The spec's example shape: urn:1 at the top level and again in an array
\* beside urn:2; both URNs have been returned, each once.
C10_Witness ==
    /\ pc = "PropertyMap.AllResources"
    /\ \E k \in DOMAIN props : props[k] = NewResourceProperty("urn:1")
    /\ \E k \in DOMAIN props :
         /\ props[k].kind = "array"
         /\ Len(props[k].elems) = 2
         /\ Occurs("urn:1", props[k])
         /\ Occurs("urn:2", props[k])
    /\ DOMAIN out.urns = {"urn:1", "urn:2"}

----------------------------------------------------------------------------
(* Claims about resource replacement.                                      *)

\* w is v with every Resource value reached through arrays and objects
\* carrying f of its URN: same variants, keys, array lengths and order, and
\* every other value (a Computed or Output and what it wraps included) the
\* same.
RECURSIVE SameButURNs(_, _, _)
SameButURNs(f, v, w) ==
    IF v.kind = "resource" THEN w.kind = "resource" /\ w.urn = f[v.urn]
    ELSE IF v.kind = "array"
    THEN /\ w.kind = "array"
         /\ Len(w.elems) = Len(v.elems)
         /\ \A i \in 1..Len(v.elems) : SameButURNs(f, v.elems[i], w.elems[i])
    ELSE IF v.kind = "object"
    THEN /\ w.kind = "object"
         /\ DOMAIN w.obj = DOMAIN v.obj
         /\ \A k \in DOMAIN v.obj : SameButURNs(f, v.obj[k], w.obj[k])
    ELSE w = v

\* C11: ReplaceResources(updater) returns a map with the keys of its
\* receiver whose values have the same shape (keys, array lengths, order,
\* non-Resource values), every URN reached through arrays and objects
\* replaced by updater of it; the receiver is afterwards what it was.
C11_ReplaceResources ==
    pc = "PropertyMap.ReplaceResources" =>
        /\ DOMAIN out.val = DOMAIN out.arg
        /\ \A k \in DOMAIN out.arg : SameButURNs(out.updater, out.arg[k], out.val[k])
        /\ props = out.arg

\* The spec's example updater (urn:1 to urn:3, identity otherwise) on urn:1
\* at the top level and in an array after urn:2: both urn:1 are replaced,
\* urn:2 stays, and the receiver still holds urn:1.
C11_Witness ==
    /\ pc = "PropertyMap.ReplaceResources"
    /\ out.updater = [u \in URNs |-> IF u = "urn:1" THEN "urn:3" ELSE u]
    /\ out.arg = [k \in Keys |->
                    IF k = "a" THEN NewResourceProperty("urn:1")
                    ELSE NewArrayProperty(<<NewResourceProperty("urn:2"),
                                            NewResourceProperty("urn:1")>>)]
    /\ out.val = [k \in Keys |->
                    IF k = "a" THEN NewResourceProperty("urn:3")
                    ELSE NewArrayProperty(<<NewResourceProperty("urn:2"),
                                            NewResourceProperty("urn:3")>>)]
    /\ props = out.arg

----------------------------------------------------------------------------
(* Claims about generic construction.                                      *)

\* A native value of the shapes the spec lists, down to its parts.
RECURSIVE Convertible(_)
Convertible(g) ==
    IF g.go = "int" THEN FALSE
    ELSE IF g.go = "slice" THEN \A i \in 1..Len(g.items) : Convertible(g.items[i])
    ELSE IF g.go = "ptr" THEN Convertible(g.to)
    ELSE IF g.go = "map" THEN \A k \in DOMAIN g.entries : Convertible(g.entries[k])
    ELSE IF g.go = "int map" THEN \A k \in DOMAIN g.ientries : Convertible(g.ientries[k])
    ELSE IF g.go = "struct" THEN \A k \in DOMAIN g.flds : Convertible(g.flds[k])
    ELSE TRUE

\* A native value with a map whose keys are not strings among its parts.
RECURSIVE HasIntKeys(_)
HasIntKeys(g) ==
    IF g.go = "int map" THEN DOMAIN g.ientries # {}
                             \/ \E k \in DOMAIN g.ientries : HasIntKeys(g.ientries[k])
    ELSE IF g.go = "slice" THEN \E i \in 1..Len(g.items) : HasIntKeys(g.items[i])
    ELSE IF g.go = "ptr" THEN HasIntKeys(g.to)
    ELSE IF g.go = "map" THEN \E k \in DOMAIN g.entries : HasIntKeys(g.entries[k])
    ELSE IF g.go = "struct" THEN \E k \in DOMAIN g.flds : HasIntKeys(g.flds[k])
    ELSE FALSE

\* The decimal numeral of a key of kind int.
Numeral(n) == <<"0", "1", "2", "3", "4", "5", "6", "7", "8", "9">>[n + 1]

\* The value v is of the variant the spec assigns to the native value g and
\* its extractor returns what g holds: the scalar, the elements in order, the
\* pointee, an entry per key (a string key as it is, an int key as its
\* numeral) or per field.
RECURSIVE SameAsNative(_, _)
SameAsNative(g, v) ==
    IF g.go \in {"nil", "nil ptr"} THEN IsNull(v)
    ELSE IF g.go = "bool" THEN IsBool(v) /\ BoolValue(v) = g.gb
    ELSE IF g.go = "float64" THEN IsNumber(v) /\ NumberValue(v) = g.gf
    ELSE IF g.go = "string" THEN IsString(v) /\ StringValue(v) = g.gs
    ELSE IF g.go = "URN" THEN IsResource(v) /\ ResourceValue(v) = g.gu
    ELSE IF g.go = "Computed" THEN IsComputed(v) /\ ComputedValue(v) = g.gc
    ELSE IF g.go = "slice"
    THEN /\ IsArray(v)
         /\ Len(ArrayValue(v)) = Len(g.items)
         /\ \A i \in 1..Len(g.items) : SameAsNative(g.items[i], ArrayValue(v)[i])
    ELSE IF g.go = "ptr" THEN SameAsNative(g.to, v)
    ELSE IF g.go = "map"
    THEN /\ IsObject(v)
         /\ DOMAIN ObjectValue(v) = DOMAIN g.entries
         /\ \A k \in DOMAIN g.entries : SameAsNative(g.entries[k], ObjectValue(v)[k])
    ELSE IF g.go = "int map"
    THEN /\ IsObject(v)
         /\ DOMAIN ObjectValue(v) = {Numeral(k) : k \in DOMAIN g.ientries}
         /\ \A k \in DOMAIN g.ientries :
              SameAsNative(g.ientries[k], ObjectValue(v)[Numeral(k)])
    ELSE IF g.go = "struct"
    THEN /\ IsObject(v)
         /\ DOMAIN ObjectValue(v) = DOMAIN g.flds
         /\ \A k \in DOMAIN g.flds : SameAsNative(g.flds[k], ObjectValue(v)[k])
    ELSE FALSE

\* Exactly one of the nine Is<Variant> predicates holds of v.
ExactlyOneVariant(v) ==
    LET is == <<IsNull(v), IsBool(v), IsNumber(v), IsString(v), IsArray(v),
                IsObject(v), IsResource(v), IsComputed(v), IsOutput(v)>>
    IN  Cardinality({i \in 1..9 : is[i]}) = 1

\* C12: NewPropertyValue maps each native shape the spec lists to the
\* variant it assigns and faults on any other shape; on every value it
\* returns exactly one Is<Variant> predicate holds and the matching
\* extractor returns a value equal to the input.
C12_AsStated ==
    pc = "NewPropertyValue" =>
        IF Convertible(out.arg)
        THEN /\ out.fault = "none"
             /\ ExactlyOneVariant(value)
             /\ SameAsNative(out.arg, value)
        ELSE out.fault # "none"

\* C12, maps with keys that are not strings left aside: on every other
\* native value the claim holds as stated.
C12_StringKeyed ==
    pc = "NewPropertyValue" /\ ~HasIntKeys(out.arg) =>
        IF Convertible(out.arg)
        THEN /\ out.fault = "none"
             /\ ExactlyOneVariant(value)
             /\ SameAsNative(out.arg, value)
        ELSE out.fault # "none"

----------------------------------------------------------------------------
(* Claims about the array accessors.                                       *)

\* The positions (from 1) of the elements of v that are not of the kind.
NotOfKind(v, kind) == {i \in 1..Len(v.elems) : v.elems[i].kind # kind}

Least(S) == CHOOSE i \in S : \A j \in S : i <= j

\* What the accessor family a (ObjectArray or StringArray, asking for
\* elements of the kind) must have returned for the Array at key: ptr says
\* whether a pointer or the slice itself is returned.
ElementContract(a, kind, ptr) ==
    LET bad == NotOfKind(props[key], kind)
    IN  /\ out.fault = "none"
        /\ bad = {} =>
             /\ out.err = NoError
             /\ out.val = IF ptr THEN PtrTo(Payload(a, props[key]))
                          ELSE Payload(a, props[key])
        /\ bad # {} =>
             /\ out.val = IF ptr THEN NilPtr ELSE <<>>
             /\ out.err.err = "errors.Errorf"
             /\ ~IsReqError(out.err)
             /\ out.err.K = key
             /\ "index" \in DOMAIN out.err
             /\ out.err.index = Least(bad) - 1

\* C13: on a key whose value is an Array, ObjectArrayOrErr and
\* StringArrayOrErr (and their Req and Opt forms) return the elements in
\* order if every element is an Object, resp. a String; otherwise they
\* return no elements and an error that is no ReqError and names the
\* (0-based) index of the first element of another kind.
C13_ElementKinds ==
    key \in DOMAIN props /\ props[key].kind = "array" =>
        /\ pc \in {"ObjectArrayOrErr", "OptObjectArrayOrErr"} =>
             ElementContract("ObjectArray", "object", TRUE)
        /\ pc = "ReqObjectArrayOrErr" => ElementContract("ObjectArray", "object", FALSE)
        /\ pc \in {"StringArrayOrErr", "OptStringArrayOrErr"} =>
             ElementContract("StringArray", "string", TRUE)
        /\ pc = "ReqStringArrayOrErr" => ElementContract("StringArray", "string", FALSE)

\* ObjectArrayOrErr on [Object, String, Number] has returned nil and the
\* error for index 1, the first of the two elements that are no Object.
C13_Witness ==
    /\ pc = "ObjectArrayOrErr"
    /\ key \in DOMAIN props
    /\ props[key].kind = "array"
    /\ NotOfKind(props[key], "object") = {2, 3}
    /\ out.val = NilPtr
    /\ out.err = ElementErrorf(key, 1, "is not an object")

----------------------------------------------------------------------------
(* Claims relating resource discovery and replacement.                     *)

IdentityUpdater == [u \in URNs |-> u]

\* C14: AllResources of m.ReplaceResources(f) is the image under f of
\* AllResources of m, and ReplaceResources with the identity updater
\* returns a map structurally equal to m.
C14_DiscoveryAgreesWithReplacement ==
    /\ pc = "AllResources of ReplaceResources" =>
         /\ DOMAIN out.urns = {out.updater[u] : u \in DOMAIN out.before}
         /\ \A u \in DOMAIN out.urns : out.urns[u] = TRUE
    /\ pc \in {"PropertyMap.ReplaceResources", "AllResources of ReplaceResources"}
       /\ out.updater = IdentityUpdater =>
         out.val = out.arg

\* An updater that sends both URNs to urn:3, on a map holding both: the two
\* URNs found before are the one found after.
C14_Witness ==
    /\ pc = "AllResources of ReplaceResources"
    /\ out.updater = [u \in URNs |-> "urn:3"]
    /\ DOMAIN out.before = {"urn:1", "urn:2"}
    /\ DOMAIN out.urns = {"urn:3"}

----------------------------------------------------------------------------
(* Claims relating marshaling and resource discovery.                      *)

\* The URNs m.AllResources() returns.
Discovered(m) == DOMAIN PropertyMapAllResources(m)

\* The URNs of the Resource values marshaling comes to: through arrays,
\* through the entries of objects that are not Output values, and through
\* the eventual values of Computed values and of the other Output values.
RECURSIVE MarshaledURNs(_)
MarshaledURNs(v) ==
    IF v.kind = "resource" THEN {v.urn}
    ELSE IF v.kind = "computed" THEN MarshaledURNs(v.cv)
    ELSE IF v.kind = "output" THEN MarshaledURNs(v.ov)
    ELSE IF v.kind = "array"
    THEN UNION {MarshaledURNs(v.elems[i]) : i \in 1..Len(v.elems)}
    ELSE IF v.kind = "object"
    THEN UNION {MarshaledURNs(v.obj[k]) :
                  k \in {x \in DOMAIN v.obj : v.obj[x].kind # "output"}}
    ELSE {}

\* C15: if MarshalPropertiesWithUnknowns with RawURNs unset returns, every
\* URN of m.AllResources() resolves to a non-empty ID in the context (the
\* live map first, the prior-deployment map when PermitOlds is set).  The
\* converse fails only through a URN AllResources does not return: when
\* the call faults although every URN of m.AllResources() resolves, a URN
\* that does not resolve sits in the eventual value of a Computed or Output
\* value that marshaling comes to.
C15_MarshalResolvesDiscovered ==
    pc = "MarshalPropertiesWithUnknowns" /\ ~opts.RawURNs =>
        LET found == Discovered(props)
            reached == MarshaledURNs(NewObjectProperty(props))
        IN  /\ out.fault = "none" => \A u \in found : Resolves(ctx, opts, u)
            /\ (out.fault # "none" /\ \A u \in found : Resolves(ctx, opts, u)) =>
                 \E u \in reached \ found : ~Resolves(ctx, opts, u)

\* Marshaling returned with PermitOlds set after resolving urn:1, which
\* AllResources returns, from the prior-deployment map.
C15_Witness ==
    /\ pc = "MarshalPropertiesWithUnknowns"
    /\ out.fault = "none"
    /\ opts.PermitOlds
    /\ ~ctx.nil
    /\ "urn:1" \notin DOMAIN ctx.URNRes
    /\ Discovered(props) = {"urn:1"}

\* The converse fails: every URN AllResources returns resolves, and the
\* call faulted on urn:2 inside the eventual value of a Computed value.
C15_ConverseFails ==
    /\ pc = "MarshalPropertiesWithUnknowns"
    /\ out.fault = "urn missing"
    /\ Discovered(props) = {"urn:1"}
    /\ Resolves(ctx, opts, "urn:1")
    /\ \E k \in DOMAIN props : props[k] = MakeComputed(NewResourceProperty("urn:2"))

====
